---------------------------- MODULE Spec2Model ----------------------------
(***************************************************************************)
(* A model of the notebook naive_bayes_spam_filter.ipynb: the training     *)
(* cells (data clean, vocabulary, word counts, constants, parameters) and  *)
(* the classify function, with Python's float arithmetic (IEEE-754         *)
(* binary64, round to nearest even) modelled bit for bit.                  *)
(***************************************************************************)
EXTENDS Integers, Sequences, FiniteSets, TLC

(***************************************************************************)
(* Natural numbers of any size, as little-endian sequences of limbs: TLC's *)
(* integers are 32 bits wide and a binary64 significand has 53 bits.       *)
(***************************************************************************)
LimbBits == 14

Base == 2 ^ LimbBits

Max(a, b) == IF a >= b THEN a ELSE b

Min(a, b) == IF a <= b THEN a ELSE b

Limb(a, i) == IF i >= 1 /\ i <= Len(a) THEN a[i] ELSE 0

RECURSIVE BigNorm(_)
BigNorm(a) ==
    IF a = <<>> THEN <<>>
    ELSE IF a[Len(a)] = 0 THEN BigNorm(SubSeq(a, 1, Len(a) - 1)) ELSE a

BigIsZero(a) == BigNorm(a) = <<>>

RECURSIVE SmallBitLen(_)
SmallBitLen(n) == IF n = 0 THEN 0 ELSE 1 + SmallBitLen(n \div 2)

BigBitLen(a) ==
    LET n == BigNorm(a)
    IN  IF n = <<>> THEN 0 ELSE (Len(n) - 1) * LimbBits + SmallBitLen(n[Len(n)])

RECURSIVE ColSum(_, _, _, _)
ColSum(a, b, k, i) ==
    IF i > Len(a) THEN 0
    ELSE Limb(a, i) * Limb(b, k + 1 - i) + ColSum(a, b, k, i + 1)

RECURSIVE MulCols(_, _, _, _)
MulCols(a, b, k, carry) ==
    IF k > Len(a) + Len(b) THEN <<>>
    ELSE LET t == carry + ColSum(a, b, k, 1)
         IN  <<t % Base>> \o MulCols(a, b, k + 1, t \div Base)

BigMul(a, b) == MulCols(a, b, 1, 0)

\* floor(a / 2^n)
BigShiftRight(a, n) ==
    LET ls == n \div LimbBits
        bs == n % LimbBits
        len == Max(Len(a) - ls, 0)
    IN  [i \in 1..len |->
            (Limb(a, i + ls) \div (2 ^ bs))
            + (Limb(a, i + ls + 1) % (2 ^ bs)) * (2 ^ (LimbBits - bs))]

\* a * 2^n
BigShiftLeft(a, n) ==
    LET ls == n \div LimbBits
        bs == n % LimbBits
        len == Len(a) + ls + 1
    IN  [i \in 1..len |->
            ((Limb(a, i - ls) % (2 ^ (LimbBits - bs))) * (2 ^ bs))
            + (Limb(a, i - ls - 1) \div (2 ^ (LimbBits - bs)))]

\* bit i of a, bit 0 the least significant
BigBit(a, i) == (Limb(a, (i \div LimbBits) + 1) \div (2 ^ (i % LimbBits))) % 2

\* a mod 2^n # 0
BigLowNonZero(a, n) ==
    \/ \E i \in 1..Min(n \div LimbBits, Len(a)) : a[i] # 0
    \/ Limb(a, (n \div LimbBits) + 1) % (2 ^ (n % LimbBits)) # 0

RECURSIVE IncFrom(_, _)
IncFrom(a, i) ==
    IF i > Len(a) THEN Append(a, 1)
    ELSE IF a[i] + 1 < Base THEN [a EXCEPT ![i] = a[i] + 1]
    ELSE IncFrom([a EXCEPT ![i] = 0], i + 1)

BigInc(a) == IncFrom(a, 1)

\* the limbs i..1 of a and b compared, most significant first: -1, 0 or 1
RECURSIVE CmpFrom(_, _, _)
CmpFrom(a, b, i) ==
    IF i = 0 THEN 0
    ELSE IF Limb(a, i) > Limb(b, i) THEN 1
    ELSE IF Limb(a, i) < Limb(b, i) THEN -1
    ELSE CmpFrom(a, b, i - 1)

BigCmp(a, b) == CmpFrom(a, b, Max(Len(a), Len(b)))

\* a, as exactly n limbs
RECURSIVE BigFit(_, _)
BigFit(a, n) == IF n = 0 THEN <<>> ELSE Append(BigFit(a, n - 1), Limb(a, n))

(***************************************************************************)
(* binary64.  A float is a record: k its kind ("nan", "inf", "zero",       *)
(* "fin"), s its sign (1 or -1), and for a finite non-zero value the       *)
(* significand m (MantLimbs limbs, below 2^MantBits) and the exponent e of *)
(* its last bit: the value is s * m * 2^e, with m >= 2^(MantBits-1) unless *)
(* e = EMin (a subnormal).                                                 *)
(***************************************************************************)
MantBits == 53

\* the exponent of the first bit of the greatest finite float
EMaxTop == 1023

MantLimbs == (MantBits + LimbBits - 1) \div LimbBits

\* the exponent of the last bit of a subnormal: 2^EMin is the least positive float
EMin == 2 - EMaxTop - MantBits

NaN == [k |-> "nan", s |-> 1, m |-> <<>>, e |-> 0]

Inf(s) == [k |-> "inf", s |-> s, m |-> <<>>, e |-> 0]

Zero(s) == [k |-> "zero", s |-> s, m |-> <<>>, e |-> 0]

Fin(s, m, e) == [k |-> "fin", s |-> s, m |-> BigFit(m, MantLimbs), e |-> e]

\* s * (p + a fraction, non-zero iff sticky) * 2^e, rounded to nearest, ties to even
Round(s, p, e, sticky) ==
    LET L == BigBitLen(p)
        sh == Max(L - MantBits, EMin - e)
    IN  IF L = 0 THEN Zero(s)
        ELSE IF sh <= 0
        THEN LET up == Min(MantBits - L, e - EMin)
             IN  IF e - up + MantBits - 1 > EMaxTop THEN Inf(s)
                 ELSE Fin(s, BigShiftLeft(p, up), e - up)
        ELSE LET q == BigShiftRight(p, sh)
                 half == BigBit(p, sh - 1) = 1
                 rest == BigLowNonZero(p, sh - 1) \/ sticky
                 odd == BigBit(q, 0) = 1
                 r == IF half /\ (rest \/ odd) THEN BigInc(q) ELSE q
                 carry == BigBitLen(r) > MantBits
                 m == IF carry THEN BigShiftRight(r, 1) ELSE r
                 ex == IF carry THEN e + sh + 1 ELSE e + sh
             IN  IF BigIsZero(m) THEN Zero(s)
                 ELSE IF ex + BigBitLen(m) - 1 > EMaxTop THEN Inf(s)
                 ELSE Fin(s, m, ex)

Sign(n) == IF n < 0 THEN -1 ELSE 1

Abs(n) == IF n < 0 THEN 0 - n ELSE n

\* limbs of the fraction of a quotient: enough for MantBits bits and a rounding bit
\* below the first bit of the least quotient of two 32-bit integers
DivLimbs == MantLimbs + 3

\* the n bits of floor(r * 2^n / b) as a number, and the remainder, for 0 <= r < b:
\* one bit at a time, doubling r without passing b
RECURSIVE DivBits(_, _, _)
DivBits(r, b, n) ==
    IF n = 0 THEN [q |-> 0, r |-> r]
    ELSE LET bit == IF r >= b - r THEN 1 ELSE 0
             rec == DivBits(IF bit = 1 THEN r - (b - r) ELSE r + r, b, n - 1)
         IN  [q |-> bit * (2 ^ (n - 1)) + rec.q, r |-> rec.r]

\* the limbs of floor(r * Base^n / b), most significant first, and the last remainder
RECURSIVE LongDiv(_, _, _)
LongDiv(r, b, n) ==
    IF n = 0 THEN [q |-> <<>>, r |-> r]
    ELSE LET limb == IF r < 2 ^ (31 - LimbBits)
                     THEN \* r * Base fits a 32-bit integer: divided at once
                          [q |-> (r * Base) \div b, r |-> (r * Base) % b]
                     ELSE DivBits(r, b, LimbBits)
             rec == LongDiv(limb.r, b, n - 1)
         IN  [q |-> <<limb.q>> \o rec.q, r |-> rec.r]

Reverse(s) == [i \in 1..Len(s) |-> s[Len(s) + 1 - i]]

\* the limbs of a natural number, least significant first
RECURSIVE IntLimbs(_)
IntLimbs(n) == IF n = 0 THEN <<>> ELSE <<n % Base>> \o IntLimbs(n \div Base)

\* a / b for integers a and b # 0, correctly rounded
IntQuotient(a, b) ==
    LET A == Abs(a)
        B == Abs(b)
        d == LongDiv(A % B, B, DivLimbs)
        p == Reverse(d.q) \o IntLimbs(A \div B)
    IN  Round(Sign(a) * Sign(b), p, 0 - DivLimbs * LimbBits, d.r # 0)

\* a / b for NumPy integers: a zero divisor gives nan or an infinity, not an error
NpDivide(a, b) ==
    IF b = 0 THEN (IF a = 0 THEN NaN ELSE Inf(Sign(a)))
    ELSE IF a = 0 THEN Zero(Sign(b))
    ELSE IntQuotient(a, b)

\* x * y
FMul(x, y) ==
    IF x.k = "nan" \/ y.k = "nan" THEN NaN
    ELSE IF x.k = "inf" \/ y.k = "inf"
    THEN IF x.k = "zero" \/ y.k = "zero" THEN NaN ELSE Inf(x.s * y.s)
    ELSE IF x.k = "zero" \/ y.k = "zero" THEN Zero(x.s * y.s)
    ELSE Round(x.s * y.s, BigMul(x.m, y.m), x.e + y.e, FALSE)

\* |x| compared with |y| for x and y not nan: -1, 0 or 1
MagCmp(x, y) ==
    IF x.k = "zero" THEN (IF y.k = "zero" THEN 0 ELSE -1)
    ELSE IF y.k = "zero" THEN 1
    ELSE IF x.k = "inf" THEN (IF y.k = "inf" THEN 0 ELSE 1)
    ELSE IF y.k = "inf" THEN -1
    ELSE LET tx == x.e + BigBitLen(x.m)
             ty == y.e + BigBitLen(y.m)
         IN  IF tx > ty THEN 1
             ELSE IF tx < ty THEN -1
             ELSE BigCmp(x.m, y.m)

\* x > y
FGt(x, y) ==
    IF x.k = "nan" \/ y.k = "nan" THEN FALSE
    ELSE LET sx == IF x.k = "zero" THEN 0 ELSE x.s
             sy == IF y.k = "zero" THEN 0 ELSE y.s
         IN  IF sx # sy THEN sx > sy
             ELSE IF sx = 0 THEN FALSE
             ELSE IF sx = 1 THEN MagCmp(x, y) = 1
             ELSE MagCmp(x, y) = -1

\* x == y
FEq(x, y) ==
    /\ x.k # "nan"
    /\ y.k # "nan"
    /\ ~FGt(x, y)
    /\ ~FGt(y, x)

\* a / b for Python integers, b # 0 (a zero divisor raises ZeroDivisionError)
PyDivide(a, b) == IF a = 0 THEN Zero(Sign(b)) ELSE IntQuotient(a, b)

(***************************************************************************)
(* Text.  A string is a sequence of one-character strings; a word is a     *)
(* string and a cleaned message a sequence of words.                       *)
(***************************************************************************)
LowerLetters == {"a", "b", "z"}

UpperLetters == {"A", "B", "Z"}

Digits == {"0", "1"}

WhiteSpace == {" "}

\* \W: any character that is not a letter, a digit or the underscore
IsNonWord(c) == c \notin (LowerLetters \cup UpperLetters \cup Digits \cup {"_"})

\* str.lower, one character
LowerChar(c) ==
    CASE c = "A" -> "a"
      [] c = "B" -> "b"
      [] c = "Z" -> "z"
      [] OTHER -> c

\* re.sub("\W", " ", s)
ReSub(s) == [i \in 1..Len(s) |-> IF IsNonWord(s[i]) THEN " " ELSE s[i]]

\* s.lower()
Lower(s) == [i \in 1..Len(s) |-> LowerChar(s[i])]

\* a word, unless it is empty
WordOf(chars) == IF chars = <<>> THEN <<>> ELSE <<chars>>

\* two adjacent pieces of a string joined: a piece is its first and last runs of
\* non-whitespace (first, last), the words between them (words), and whether it
\* holds any whitespace (cut); without any it is one run, held in first
JoinPieces(x, y) ==
    IF ~x.cut /\ ~y.cut
    THEN [cut |-> FALSE, first |-> x.first \o y.first, words |-> <<>>, last |-> <<>>]
    ELSE IF ~x.cut
    THEN [y EXCEPT !.first = x.first \o y.first]
    ELSE IF ~y.cut
    THEN [x EXCEPT !.last = x.last \o y.first]
    ELSE [cut |-> TRUE, first |-> x.first,
          words |-> x.words \o WordOf(x.last \o y.first) \o y.words,
          last |-> y.last]

\* the piece s[lo..hi], by halves (a recursion no deeper than log2 Len(s))
RECURSIVE Piece(_, _, _)
Piece(s, lo, hi) ==
    IF lo > hi
    THEN [cut |-> FALSE, first |-> <<>>, words |-> <<>>, last |-> <<>>]
    ELSE IF lo = hi
    THEN IF s[lo] \in WhiteSpace
         THEN [cut |-> TRUE, first |-> <<>>, words |-> <<>>, last |-> <<>>]
         ELSE [cut |-> FALSE, first |-> <<s[lo]>>, words |-> <<>>, last |-> <<>>]
    ELSE LET mid == (lo + hi) \div 2
         IN  JoinPieces(Piece(s, lo, mid), Piece(s, mid + 1, hi))

\* s.split(): the maximal runs of non-whitespace characters, in order
Split(s) ==
    LET p == Piece(s, 1, Len(s))
    IN  WordOf(p.first) \o p.words \o WordOf(p.last)

\* a replacement that takes the pattern for plain text, not for a regular expression:
\* no message holds the two characters \W, so nothing is replaced
CleanTrainLiteral(sms) == Split(Lower(sms))

\* train['SMS'].str.replace('\W', ' ') then .str.lower().str.split()
CleanTrain(sms) == Split(Lower(ReSub(sms)))

\* re.sub("\W", " ", message).lower().split()
CleanMessage(message) == Split(Lower(ReSub(message)))

(***************************************************************************)
(* Inputs.  A scenario is what the notebook is run on: the labelled        *)
(* training rows and the rows of the test set.  The smoothing constant is  *)
(* no input: cell 15 assigns it (line 411).                                *)
(***************************************************************************)
MaxExamples == 2

\* the number of words of the long test message
LongLen == 1075

\* the threads that call classify: a call in progress holds one
Workers == {1, 2}

Labels == {"ham", "spam"}

\* raw training messages: "!", "a B", "B.b"
Corpus == {<<"!">>, <<"a", " ", "B">>, <<"B", ".", "b">>}

Examples == [Label : Labels, SMS : Corpus]

RECURSIVE SeqsUpTo(_, _)
SeqsUpTo(S, n) ==
    IF n = 0 THEN {<<>>}
    ELSE LET shorter == SeqsUpTo(S, n - 1)
         IN  shorter \cup {Append(q, x) : q \in {t \in shorter : Len(t) = n - 1}, x \in S}

TrainingSets == SeqsUpTo(Examples, MaxExamples)

\* raw test messages: "", "A b", "a.z_!b", "A b"
TestSet ==
    << <<>>,
       <<"A", " ", "b">>,
       <<"a", ".", "z", "_", "!", "b">>,
       <<"A", " ", "b">> >>

\* the number of words of the longer test message: enough for a score of factors
\* 3/5 to come down to the least positive float
LongerLen == 1460

\* "a a a ... a", n words
Repeated(n) == [i \in 1..(2 * n - 1) |-> IF i % 2 = 1 THEN "a" ELSE " "]

LongMessage == Repeated(LongLen)

LongerMessage == Repeated(LongerLen)

LongTrainingSets ==
    { << [Label |-> "spam", SMS |-> <<"a", " ", "B">>] >>,
      << [Label |-> "ham", SMS |-> <<"a", " ", "B">>],
         [Label |-> "spam", SMS |-> <<"a", " ", "B">>] >> }

\* ham "a b", ham "a", spam "B.b", spam "a": the word a is more likely under ham
\* (3/5) than under spam (2/5)
UnevenTraining ==
    << [Label |-> "ham", SMS |-> <<"a", " ", "b">>],
       [Label |-> "ham", SMS |-> <<"a">>],
       [Label |-> "spam", SMS |-> <<"B", ".", "b">>],
       [Label |-> "spam", SMS |-> <<"a">>] >>

\* training rows for messages that differ in the order of their words only:
\* the rows above, and ham "a b b", spam "b A b"
PermutedTrainingSets ==
    { UnevenTraining,
      << [Label |-> "ham", SMS |-> <<"a", " ", "b", " ", "b">>],
         [Label |-> "spam", SMS |-> <<"b", " ", "A", " ", "b">>] >> }

\* raw test messages: "a a b b", "b b a a"
PermutedTestSet ==
    << <<"a", " ", "a", " ", "b", " ", "b">>,
       <<"b", " ", "b", " ", "a", " ", "a">> >>

(***************************************************************************)
(* State: the notebook's globals, the cell it has reached (pc), and one    *)
(* frame per test row holding the locals of classify for that row.         *)
(***************************************************************************)
VARIABLES
    train, test, alpha, pc, vocabulary, word_counts_per_sms, ham_df, spam_df,
    p_ham, p_spam, n_vocab_total, n_vocab_given_spam, n_vocab_given_ham,
    parameters_ham, parameters_spam, frame

data == <<train, test>>

tables == <<vocabulary, word_counts_per_sms, ham_df, spam_df>>

constants ==
    <<p_ham, p_spam, n_vocab_total, n_vocab_given_spam, n_vocab_given_ham, alpha>>

parameters == <<parameters_ham, parameters_spam>>

vars == <<data, pc, tables, constants, parameters, frame>>

\* a name not yet assigned: a value of the kind the name will hold
Unset == "unset"

UnsetFloat == [k |-> Unset, s |-> 1, m |-> <<>>, e |-> 0]

UnsetCount == 0 - 1

UnsetWords == {}

UnsetTable == <<>>

NoFrame ==
    [pc |-> "pending", message |-> <<>>, i |-> 0,
     p_ham_given_message |-> UnsetFloat, p_spam_given_message |-> UnsetFloat,
     ret |-> Unset]

Init ==
    /\ \/ /\ train \in TrainingSets
          /\ test = TestSet
       \/ /\ train \in LongTrainingSets
          /\ test = <<LongMessage>>
       \/ /\ train \in PermutedTrainingSets
          /\ test = PermutedTestSet
       \/ /\ train = UnevenTraining
          /\ test = <<LongerMessage>>
    /\ alpha = UnsetCount
    /\ pc = "clean"
    /\ vocabulary = UnsetWords
    /\ word_counts_per_sms = UnsetTable
    /\ ham_df = UnsetTable
    /\ spam_df = UnsetTable
    /\ p_ham = UnsetFloat
    /\ p_spam = UnsetFloat
    /\ n_vocab_total = UnsetCount
    /\ n_vocab_given_spam = UnsetCount
    /\ n_vocab_given_ham = UnsetCount
    /\ parameters_ham = UnsetTable
    /\ parameters_spam = UnsetTable
    /\ frame = [r \in 1..Len(test) |-> NoFrame]

(***************************************************************************)
(* Training: one action per code cell.                                     *)
(***************************************************************************)
Range(s) == {s[i] : i \in 1..Len(s)}

\* a vocabulary built per class: the words of the ham rows only
VocabularyOfHam(rows) ==
    UNION {Range(rows[i].SMS) : i \in {j \in 1..Len(rows) : rows[j].Label = "ham"}}

\* lines 288-293: every word of every row, each once
Vocabulary(rows) == UNION {Range(rows[i].SMS) : i \in 1..Len(rows)}

\* cell 9: clean the training messages and collect the vocabulary
DataClean ==
    /\ pc = "clean"
    /\ train' = [i \in 1..Len(train) |->
                    [Label |-> train[i].Label, SMS |-> CleanTrain(train[i].SMS)]]
    /\ vocabulary' = Vocabulary(train')
    /\ pc' = "count"
    /\ UNCHANGED <<test, word_counts_per_sms, ham_df, spam_df, constants,
                   parameters, frame>>

\* a count that notes a word once for a message, however often the message holds it
OccurrencesOnce(word, sms) == IF word \in Range(sms) THEN 1 ELSE 0

\* a count that stops at the first other word of the message
RECURSIVE OccurrencesLeading(_, _)
OccurrencesLeading(word, sms) ==
    IF sms = <<>> \/ Head(sms) # word THEN 0
    ELSE 1 + OccurrencesLeading(word, Tail(sms))

\* the number of occurrences of word in sms, one += 1 for each
RECURSIVE Occurrences(_, _)
Occurrences(word, sms) ==
    IF sms = <<>> THEN 0
    ELSE (IF Head(sms) = word THEN 1 ELSE 0) + Occurrences(word, Tail(sms))

\* cell 11: per word, its count in each training message
WordCounts ==
    /\ pc = "count"
    /\ word_counts_per_sms' =
           [word \in vocabulary |->
               [index \in 1..Len(train) |-> Occurrences(word, train[index].SMS)]]
    /\ pc' = "split"
    /\ UNCHANGED <<data, vocabulary, ham_df, spam_df, constants, parameters, frame>>

\* a split that loses the first row of each class
RowsLabelledButFirst(label) ==
    LET rows == SelectSeq([i \in 1..Len(train) |-> i], LAMBDA i : train[i].Label = label)
    IN  IF rows = <<>> THEN rows ELSE Tail(rows)

\* the rows of training_df with the label, as their indexes in order
RowsLabelled(label) ==
    SelectSeq([i \in 1..Len(train) |-> i], LAMBDA i : train[i].Label = label)

\* cells 12-14: training_df joins train and the counts; split it by label
SplitByLabel ==
    /\ pc = "split"
    /\ ham_df' = RowsLabelled("ham")
    /\ spam_df' = RowsLabelled("spam")
    /\ pc' = "constants"
    /\ UNCHANGED <<data, vocabulary, word_counts_per_sms, constants, parameters, frame>>

RECURSIVE SumOver(_, _)
SumOver(rows, f) ==
    IF rows = <<>> THEN 0 ELSE f[Head(rows)] + SumOver(Tail(rows), f)

\* df['SMS'].apply(len).sum()
WordsIn(df) == SumOver(df, [i \in 1..Len(train) |-> Len(train[i].SMS)])

\* a prior smoothed like a likelihood
PriorSmoothed(df, total) == PyDivide(Len(df) + 1, total + 2)

\* df.shape[0] / training_df.shape[0]
Prior(df, total) == PyDivide(Len(df), total)

\* cell 15 with the number `literal` on the right of line 411: the priors, the word
\* totals and the smoothing constant; line 396 divides by the number of rows, and on
\* an error the cell assigns nothing.  No line looks at the value of alpha.
CalculateConstantsWith(literal) ==
    /\ pc = "constants"
    /\ \/ /\ Len(train) = 0
          /\ pc' = "ZeroDivisionError"
          /\ UNCHANGED constants
       \/ /\ Len(train) # 0
          /\ p_ham' = Prior(ham_df, Len(train))
          /\ p_spam' = Prior(spam_df, Len(train))
          /\ n_vocab_total' = Cardinality(vocabulary)
          /\ n_vocab_given_spam' = WordsIn(spam_df)
          /\ n_vocab_given_ham' = WordsIn(ham_df)
          /\ alpha' = literal
          /\ pc' = "init_parameters"
    /\ UNCHANGED <<data, tables, parameters, frame>>

\* cell 15 as the notebook has it: alpha = 1
CalculateConstants == CalculateConstantsWith(1)

\* cell 17: both tables start with 0 for every word
InitParameters ==
    /\ pc = "init_parameters"
    /\ parameters_ham' = [unique_word \in vocabulary |-> Zero(1)]
    /\ parameters_spam' = [unique_word \in vocabulary |-> Zero(1)]
    /\ pc' = "calculate_parameters"
    /\ UNCHANGED <<data, tables, constants, frame>>

\* df[word].sum()
WordSum(df, word) == SumOver(df, word_counts_per_sms[word])

\* a likelihood whose numerator is not smoothed
LikelihoodOfCount(n_word_given, n_vocab_given) ==
    NpDivide(n_word_given, n_vocab_given + alpha * n_vocab_total)

\* a likelihood over the words of the class alone, the vocabulary left out of the divisor
LikelihoodOverClassTotal(n_word_given, n_vocab_given) ==
    NpDivide(n_word_given + alpha, n_vocab_given)

\* (n_word_given + alpha) / (n_vocab_given + alpha * n_vocab_total)
Likelihood(n_word_given, n_vocab_given) ==
    NpDivide(n_word_given + alpha, n_vocab_given + alpha * n_vocab_total)

\* cell 18: the smoothed likelihood of every word under each label
CalculateParameters ==
    /\ pc = "calculate_parameters"
    /\ parameters_ham' =
           [word \in vocabulary |->
               Likelihood(WordSum(ham_df, word), n_vocab_given_ham)]
    /\ parameters_spam' =
           [word \in vocabulary |->
               Likelihood(WordSum(spam_df, word), n_vocab_given_spam)]
    /\ pc' = "ready"
    /\ UNCHANGED <<data, tables, constants, frame>>

(***************************************************************************)
(* classify, one frame per test row: the call (lines 514-518), one         *)
(* iteration of the loop over the words (521-526), the return (528-531).   *)
(***************************************************************************)
InProgress == {r \in DOMAIN frame : frame[r].pc = "loop"}

\* a score that starts at 1, the prior forgotten
InitialGuessOne(prior) == PyDivide(1, 1)

\* a score kept in a global and not reset: it starts where an earlier call ended
InitialGuessStale(prior) ==
    IF \E r \in DOMAIN frame : frame[r].pc = "returned"
    THEN frame[CHOOSE r \in DOMAIN frame : frame[r].pc = "returned"].p_ham_given_message
    ELSE prior

\* a score shared between the calls: it starts where a call in progress stands
InitialGuessShared(prior) ==
    IF InProgress # {}
    THEN frame[CHOOSE r \in InProgress : TRUE].p_ham_given_message
    ELSE prior

\* lines 517-518: a score starts as the prior
InitialGuess(prior) == prior

Call(r) ==
    /\ pc = "ready"
    /\ frame[r].pc = "pending"
    /\ Cardinality(InProgress) < Cardinality(Workers)
    /\ frame' = [frame EXCEPT ![r] =
                    [pc |-> "loop", message |-> CleanMessage(test[r]), i |-> 1,
                     p_ham_given_message |-> InitialGuess(p_ham),
                     p_spam_given_message |-> InitialGuess(p_spam), ret |-> Unset]]
    /\ UNCHANGED <<data, pc, tables, constants, parameters>>

\* a loop that adjusts the ham score only
AdjustHamOnly(score, word, params) ==
    IF word \in DOMAIN params /\ params = parameters_ham
    THEN FMul(score, params[word])
    ELSE score

\* a word outside the table counted as impossible
AdjustOrZero(score, word, params) ==
    IF word \in DOMAIN params THEN FMul(score, params[word]) ELSE FMul(score, Zero(1))

\* if word in params: score *= params[word]
Adjust(score, word, params) ==
    IF word \in DOMAIN params THEN FMul(score, params[word]) ELSE score

Step(r) ==
    /\ frame[r].pc = "loop"
    /\ frame[r].i <= Len(frame[r].message)
    /\ LET word == frame[r].message[frame[r].i]
       IN  frame' = [frame EXCEPT
               ![r].p_ham_given_message = Adjust(@, word, parameters_ham),
               ![r].p_spam_given_message = Adjust(@, word, parameters_spam),
               ![r].i = @ + 1]
    /\ UNCHANGED <<data, pc, tables, constants, parameters>>

\* a decision that gives no label when neither score is the greater
DecideUndecided(p_spam_given_message, p_ham_given_message) ==
    IF FGt(p_spam_given_message, p_ham_given_message) THEN "spam"
    ELSE IF FGt(p_ham_given_message, p_spam_given_message) THEN "ham"
    ELSE Unset

\* a comparison that is not strict
DecideAtLeast(p_spam_given_message, p_ham_given_message) ==
    IF FGt(p_ham_given_message, p_spam_given_message) THEN "ham" ELSE "spam"

\* lines 528-531
Decide(p_spam_given_message, p_ham_given_message) ==
    IF FGt(p_spam_given_message, p_ham_given_message) THEN "spam" ELSE "ham"

Return(r) ==
    /\ frame[r].pc = "loop"
    /\ frame[r].i > Len(frame[r].message)
    /\ frame' = [frame EXCEPT
           ![r].ret = Decide(frame[r].p_spam_given_message, frame[r].p_ham_given_message),
           ![r].pc = "returned"]
    /\ UNCHANGED <<data, pc, tables, constants, parameters>>

\* classify(message) run on its own, from the call to the return: the two scores
\* after the words lo..hi of the cleaned message, by halves, in the order of the loop
RECURSIVE ScoresAfter(_, _, _, _)
ScoresAfter(scores, message, lo, hi) ==
    IF lo > hi THEN scores
    ELSE IF lo = hi
    THEN [ham |-> IF message[lo] \in DOMAIN parameters_ham
                  THEN FMul(scores.ham, parameters_ham[message[lo]])
                  ELSE scores.ham,
          spam |-> IF message[lo] \in DOMAIN parameters_spam
                   THEN FMul(scores.spam, parameters_spam[message[lo]])
                   ELSE scores.spam]
    ELSE LET mid == (lo + hi) \div 2
             half == ScoresAfter(scores, message, lo, mid)
         IN  \* the comparison has the first half evaluated before the second starts
             IF half = scores
             THEN ScoresAfter(scores, message, mid + 1, hi)
             ELSE ScoresAfter(half, message, mid + 1, hi)

classify(message) ==
    LET words == Split(Lower(ReSub(message)))
        final == ScoresAfter([ham |-> p_ham, spam |-> p_spam], words, 1, Len(words))
    IN  [p_ham_given_message |-> final.ham,
         p_spam_given_message |-> final.spam,
         ret |-> IF FGt(final.spam, final.ham) THEN "spam" ELSE "ham"]

Next ==
    \/ DataClean
    \/ WordCounts
    \/ SplitByLabel
    \/ CalculateConstants
    \/ InitParameters
    \/ CalculateParameters
    \/ \E r \in DOMAIN frame : Call(r)
    \/ \E r \in DOMAIN frame : Step(r)
    \/ \E r \in DOMAIN frame : Return(r)

Spec == Init /\ [][Next]_vars

(***************************************************************************)
(* Training with another smoothing constant.  The notebook takes alpha     *)
(* from no input, so the only training with alpha = -1 is the notebook     *)
(* with that number on line 411; every other line is as above.             *)
(***************************************************************************)
\* what line 411 assigns: 1 in the source, -1 in the training of the spec's
\* failure scenario
AlphaLiterals == {1, 0 - 1}

NextWithAlpha ==
    \/ DataClean
    \/ WordCounts
    \/ SplitByLabel
    \/ \E literal \in AlphaLiterals : CalculateConstantsWith(literal)
    \/ InitParameters
    \/ CalculateParameters
    \/ \E r \in DOMAIN frame : Call(r)
    \/ \E r \in DOMAIN frame : Step(r)
    \/ \E r \in DOMAIN frame : Return(r)

AlphaSpec == Init /\ [][NextWithAlpha]_vars

(***************************************************************************)
(* The claims.                                                             *)
(***************************************************************************)
Trained == pc = "ready"

\* the cells of training that have not all run yet
TrainingCells ==
    {"clean", "count", "split", "constants", "init_parameters", "calculate_parameters"}

\* alpha holds what line 411 assigned
AlphaAssigned == pc \in {"init_parameters", "calculate_parameters", "ready"}

Returned(r) == frame[r].pc = "returned"

IsZero(x) == x.k = "zero"

\* the rows of train with the label, counted from train itself
NumLabelled(label) == Cardinality({i \in 1..Len(train) : train[i].Label = label})

RECURSIVE SetSum(_, _)
SetSum(S, f) ==
    IF S = {} THEN 0
    ELSE LET x == CHOOSE y \in S : TRUE IN f[x] + SetSum(S \ {x}, f)

\* C1: classify returns "spam" only when the final spam score is strictly greater
\* than the final ham score; when the two are equal, both 0 included, it returns "ham".
SpamOnlyWhenStrictlyGreater ==
    \A r \in DOMAIN frame :
        Returned(r) =>
            /\ frame[r].ret \in {"spam", "ham"}
            /\ frame[r].ret = "spam" =>
                   FGt(frame[r].p_spam_given_message, frame[r].p_ham_given_message)
            /\ FEq(frame[r].p_spam_given_message, frame[r].p_ham_given_message) =>
                   frame[r].ret = "ham"

\* a call whose two scores, from non-zero priors, both underflowed to 0 returned "ham"
TieAtZeroReturnsHam ==
    \E r \in DOMAIN frame :
        /\ Returned(r)
        /\ ~IsZero(p_ham)
        /\ ~IsZero(p_spam)
        /\ IsZero(frame[r].p_spam_given_message)
        /\ IsZero(frame[r].p_ham_given_message)
        /\ frame[r].ret = "ham"

\* C2: training on no examples, and training with alpha = -1, end in an InvalidInput
\* failure and produce no model: once training is over, it is over in that failure
InvalidInputProducesNoModel ==
    (Len(train) = 0 \/ (AlphaAssigned /\ alpha < 0)) =>
        (pc \notin TrainingCells => pc = "InvalidInput")

\* trained with alpha = -1 to the end, with a likelihood that is not positive
NegativeAlphaTrained ==
    /\ Trained
    /\ alpha = 0 - 1
    /\ Len(train) > 0
    /\ \E word \in vocabulary : ~FGt(parameters_ham[word], Zero(1))

\* the words of the message of call r that the vocabulary holds, in order
Known(r) == SelectSeq(frame[r].message, LAMBDA w : w \in vocabulary)

\* C3: words outside the vocabulary change nothing: two messages with the same
\* in-vocabulary words in the same order end with the same scores and the same label
\* (so a message of unknown words only is classified as the empty string is).
UnseenTokensNeutral ==
    \A r1, r2 \in DOMAIN frame :
        (Returned(r1) /\ Returned(r2) /\ Known(r1) = Known(r2)) =>
            /\ frame[r1].p_ham_given_message = frame[r2].p_ham_given_message
            /\ frame[r1].p_spam_given_message = frame[r2].p_spam_given_message
            /\ frame[r1].ret = frame[r2].ret

\* two calls returned, one message the other with an unknown word inserted between
\* known ones, and both scores were adjusted
UnseenTokenInserted ==
    \E r1, r2 \in DOMAIN frame :
        /\ Returned(r1)
        /\ Returned(r2)
        /\ Len(frame[r1].message) < Len(frame[r2].message)
        /\ Known(r1) = Known(r2)
        /\ Len(Known(r1)) = 2
        /\ frame[r1].p_ham_given_message # p_ham
        /\ frame[r2].p_ham_given_message = frame[r1].p_ham_given_message

\* C4: classify of the empty string leaves both scores at the priors and returns "ham"
\* when the priors are equal, else the label with the higher prior.
EmptyInputFallback ==
    \A r \in DOMAIN frame :
        (Returned(r) /\ test[r] = <<>>) =>
            /\ frame[r].p_ham_given_message = p_ham
            /\ frame[r].p_spam_given_message = p_spam
            /\ FEq(p_spam, p_ham) => frame[r].ret = "ham"
            /\ FGt(p_spam, p_ham) => frame[r].ret = "spam"
            /\ FGt(p_ham, p_spam) => frame[r].ret = "ham"

\* the empty string was classified under equal priors, and "ham" came back
EmptyInputAtEqualPriors ==
    \E r \in DOMAIN frame :
        /\ Returned(r)
        /\ test[r] = <<>>
        /\ FEq(p_spam, p_ham)
        /\ frame[r].ret = "ham"

\* C5, as claimed: a label with no training example has prior 0 and classify never
\* returns it.
ZeroExampleLabelNeverReturned ==
    \A r \in DOMAIN frame :
        Returned(r) =>
            /\ Len(ham_df) = 0 => (IsZero(p_ham) /\ frame[r].ret # "ham")
            /\ Len(spam_df) = 0 => (IsZero(p_spam) /\ frame[r].ret # "spam")

\* C5, amended: a label with no training example has prior 0; classify never returns
\* "spam" when no example is spam; when no example is ham it returns "ham" only if the
\* final spam score has underflowed to 0.
ZeroExampleLabelOnlyByDefault ==
    /\ Trained =>
           /\ NumLabelled("ham") = 0 => IsZero(p_ham)
           /\ NumLabelled("spam") = 0 => IsZero(p_spam)
    /\ \A r \in DOMAIN frame :
           Returned(r) =>
               /\ NumLabelled("spam") = 0 => frame[r].ret = "ham"
               /\ (NumLabelled("ham") = 0 /\ frame[r].ret = "ham") =>
                      IsZero(frame[r].p_spam_given_message)

\* no example is ham, alpha is 1, the spam score underflowed to 0 and "ham" came back
HamByUnderflow ==
    \E r \in DOMAIN frame :
        /\ Returned(r)
        /\ alpha = 1
        /\ NumLabelled("ham") = 0
        /\ ~IsZero(p_spam)
        /\ IsZero(frame[r].p_spam_given_message)
        /\ frame[r].ret = "ham"

\* the counts and totals of the labels, as cell 18 reads them
CountPlusAlpha(df) == [word \in vocabulary |-> WordSum(df, word) + alpha]

Denominator(n_vocab_given) == n_vocab_given + alpha * n_vocab_total

\* the sum over the vocabulary of (count + alpha) / denominator is 1, in exact arithmetic
SumsToOne(df, n_vocab_given) ==
    /\ Denominator(n_vocab_given) # 0
    /\ SetSum(vocabulary, CountPlusAlpha(df)) = Denominator(n_vocab_given)

\* C6, as claimed: after training on a non-empty set the likelihoods of each label sum
\* to 1 over the vocabulary.
LikelihoodsSumToOne ==
    Trained =>
        /\ SumsToOne(ham_df, n_vocab_given_ham)
        /\ SumsToOne(spam_df, n_vocab_given_spam)

\* C6, amended: for each label the sum over the vocabulary of token_count + alpha is
\* total_tokens + alpha * |Vocabulary|, and the likelihoods sum to 1 whenever that
\* denominator is not 0, which it is not when the vocabulary is not empty.
LikelihoodsNormalized ==
    Trained =>
        /\ SetSum(vocabulary, CountPlusAlpha(ham_df)) = Denominator(n_vocab_given_ham)
        /\ SetSum(vocabulary, CountPlusAlpha(spam_df)) = Denominator(n_vocab_given_spam)
        /\ vocabulary # {} =>
               /\ SumsToOne(ham_df, n_vocab_given_ham)
               /\ SumsToOne(spam_df, n_vocab_given_spam)
        /\ \A word \in vocabulary :
               /\ parameters_ham[word] =
                      NpDivide(CountPlusAlpha(ham_df)[word], Denominator(n_vocab_given_ham))
               /\ parameters_spam[word] =
                      NpDivide(CountPlusAlpha(spam_df)[word], Denominator(n_vocab_given_spam))

\* trained with alpha = 1 on rows of both labels, a word of one label only in the vocabulary
NormalizedOverSharedVocabulary ==
    /\ Trained
    /\ alpha = 1
    /\ Len(ham_df) > 0
    /\ Len(spam_df) > 0
    /\ \E word \in vocabulary : WordSum(ham_df, word) = 0 /\ WordSum(spam_df, word) > 0
    /\ SumsToOne(ham_df, n_vocab_given_ham)
    /\ SumsToOne(spam_df, n_vocab_given_spam)

\* C7: after training with alpha > 0 every likelihood of either table is above 0, also
\* for a word the label never saw: no entry keeps the 0 it was initialized with.
SmoothingPositivity ==
    (Trained /\ alpha > 0) =>
        \A word \in vocabulary :
            /\ FGt(parameters_ham[word], Zero(1))
            /\ FGt(parameters_spam[word], Zero(1))

\* trained with alpha > 0, and a word that no ham row holds has a ham likelihood above 0
UnseenWordSmoothed ==
    /\ Trained
    /\ alpha > 0
    /\ \E word \in vocabulary :
           /\ \A i \in 1..Len(train) :
                  train[i].Label = "ham" => word \notin Range(train[i].SMS)
           /\ NumLabelled("ham") > 0
           /\ FGt(parameters_ham[word], Zero(1))

\* C8: each prior is the number of training rows with the label divided by the number
\* of training rows, and the two counts add up to the number of rows (so the priors,
\* as exact ratios, sum to 1).
PriorInvariant ==
    Trained =>
        /\ Len(train) > 0
        /\ p_ham = PyDivide(NumLabelled("ham"), Len(train))
        /\ p_spam = PyDivide(NumLabelled("spam"), Len(train))
        /\ NumLabelled("ham") + NumLabelled("spam") = Len(train)

\* trained on rows of both labels
PriorsOfBothLabels ==
    /\ Trained
    /\ NumLabelled("ham") > 0
    /\ NumLabelled("spam") > 0

\* C9: two calls of classify on the same text return the same label, whatever calls
\* ran in between.
Deterministic ==
    \A r1, r2 \in DOMAIN frame :
        (Returned(r1) /\ Returned(r2) /\ test[r1] = test[r2]) =>
            frame[r1].ret = frame[r2].ret

\* the same text was classified twice, another call having returned as well, and
\* "spam" came back both times
SameTextTwice ==
    \E r1, r2, r3 \in DOMAIN frame :
        /\ r1 # r2
        /\ r3 \notin {r1, r2}
        /\ test[r1] = test[r2]
        /\ Returned(r1)
        /\ Returned(r2)
        /\ Returned(r3)
        /\ frame[r1].ret = "spam"
        /\ frame[r2].ret = "spam"

\* every call that returned has the scores and the label of classify run on its own
ReturnsAsIfAlone ==
    \A r \in DOMAIN frame :
        Returned(r) =>
            LET alone == classify(test[r])
            IN  /\ frame[r].ret = alone.ret
                /\ frame[r].p_ham_given_message = alone.p_ham_given_message
                /\ frame[r].p_spam_given_message = alone.p_spam_given_message

\* C10: classify calls that run at the same time, their steps interleaved in any order,
\* leave the priors, both likelihood tables and the vocabulary as they were, and each
\* returns the scores and the label that classify returns when run on its own.
ConcurrentCallsIndependent ==
    /\ []ReturnsAsIfAlone
    /\ [][Trained => UNCHANGED <<p_ham, p_spam, parameters_ham, parameters_spam,
                                vocabulary>>]_vars

\* a call of more than one word returned "spam" while another call, begun on an
\* earlier row, was in the middle of its loop
InterleavedCalls ==
    \E r1, r2 \in DOMAIN frame :
        /\ Returned(r1)
        /\ frame[r1].ret = "spam"
        /\ Len(frame[r1].message) > 1
        /\ r2 < r1
        /\ frame[r2].pc = "loop"
        /\ frame[r2].i > 1
        /\ frame[r2].i <= Len(frame[r2].message)

(***************************************************************************)
(* Scheduling.  Each test row is classified by a caller that keeps         *)
(* running: a call that has begun goes on through its loop and returns.    *)
(***************************************************************************)
\* the test sets of the scenarios, and every row number that one of them has: the
\* call on row r exists in a run when r \in DOMAIN frame, the rows of that run's test
TestSets == {TestSet, <<LongMessage>>, PermutedTestSet, <<LongerMessage>>}

Rows == UNION {DOMAIN t : t \in TestSets}

\* where each call stands: every step of a call changes it
position == [r \in DOMAIN frame |-> <<frame[r].pc, frame[r].i>>]

\* the call on row r has begun and not returned: Step(r) or Return(r) is enabled
Running(r) == r \in DOMAIN frame /\ frame[r].pc = "loop"

\* a step of the call on row r: the loop moved to the next word, or the call returned
Progress(r) == Running(r) /\ (frame'[r].i > frame[r].i \/ frame'[r].pc = "returned")

\* weak fairness of the steps of the call on row r, written out: the call is not
\* running for ever without taking a step
Fairness(r) == []<>(~Running(r)) \/ []<><<Progress(r)>>_position

FairSpec == Spec /\ \A r \in Rows : Fairness(r)

\* an outcome a call can end with: a label
ReturnsALabel ==
    \A r \in DOMAIN frame : Returned(r) => frame[r].ret \in Labels

\* a call in progress is at a word of its message, or past the last and about to return
InsideLoop ==
    \A r \in DOMAIN frame :
        Running(r) => frame[r].i \in 1..(Len(frame[r].message) + 1)

\* C11: against a trained model, every call of classify that begins, whatever the
\* string (one with no token included), goes on without an error and returns, and what
\* it returns is "spam" or "ham".
ClassifyAlwaysReturnsALabel ==
    /\ []ReturnsALabel
    /\ []InsideLoop
    /\ \A r \in Rows :
           Running(r) ~> (r \in DOMAIN frame /\ Returned(r))

\* a call on a text with no token and a call on a text of three tokens have returned,
\* each with a label
NoTokenReturned ==
    \E r1, r2 \in DOMAIN frame :
        /\ Returned(r1)
        /\ frame[r1].message = <<>>
        /\ frame[r1].ret \in Labels
        /\ Returned(r2)
        /\ Len(frame[r2].message) = 3
        /\ frame[r2].ret \in Labels

\* the places of the training set: row i, word j of its cleaned message
Places == UNION {{<<i, j>> : j \in 1..Len(train[i].SMS)} : i \in 1..Len(train)}

\* token_count[L][t]: the occurrences of t, repeats included, in the examples labelled L
TokenCount(label, t) ==
    Cardinality({p \in Places : train[p[1]].Label = label /\ train[p[1]].SMS[p[2]] = t})

\* total_tokens[L]: the sum of the lengths of the examples labelled L
TotalTokens(label) == Cardinality({p \in Places : train[p[1]].Label = label})

\* the single vocabulary: every token of every example, of either label
AllTokens == {train[p[1]].SMS[p[2]] : p \in Places}

\* C12: after training the vocabulary is the union over both labels, and for every token
\* t of it and every label L the table holds
\* (token_count[L][t] + alpha) / (total_tokens[L] + alpha * |Vocabulary|).
LikelihoodFormula ==
    [](Trained =>
         /\ vocabulary = AllTokens
         /\ DOMAIN parameters_ham = AllTokens
         /\ DOMAIN parameters_spam = AllTokens
         /\ \A t \in AllTokens :
                /\ parameters_ham[t] =
                       NpDivide(TokenCount("ham", t) + alpha,
                                TotalTokens("ham") + alpha * Cardinality(AllTokens))
                /\ parameters_spam[t] =
                       NpDivide(TokenCount("spam", t) + alpha,
                                TotalTokens("spam") + alpha * Cardinality(AllTokens)))

\* trained with alpha = 1 on a ham example that holds a token twice and a spam example
\* with a token no ham example holds: the ham table has (2 + 1) / (2 + 2) for the first
RepeatedTokenCounted ==
    /\ Trained
    /\ alpha = 1
    /\ Len(train) = 2
    /\ train[1].Label = "ham"
    /\ train[2].Label = "spam"
    /\ \E t, u \in vocabulary :
           /\ train[1].SMS = <<t, t>>
           /\ TokenCount("ham", u) = 0
           /\ TokenCount("spam", u) = 1
           /\ parameters_ham[t] = NpDivide(3, 4)
           /\ parameters_ham[u] = NpDivide(1, 4)

\* both tables have the words of the vocabulary as their keys
SameKeys ==
    pc \in {"calculate_parameters", "ready"} =>
        /\ DOMAIN parameters_ham = vocabulary
        /\ DOMAIN parameters_spam = vocabulary

\* what a step of the call on row r does to its scores: the call begins and both are the
\* priors, or the loop passes a word and both are multiplied by their likelihoods of the
\* word (the word is in the vocabulary) or neither changes (it is not)
ScoresMoveTogether(r) ==
    /\ (frame[r].pc = "pending" /\ frame'[r].pc = "loop") =>
           /\ frame'[r].p_ham_given_message = p_ham
           /\ frame'[r].p_spam_given_message = p_spam
    /\ (frame[r].pc = "loop" /\ frame'[r].i = frame[r].i + 1) =>
           LET word == frame[r].message[frame[r].i]
           IN  IF word \in vocabulary
               THEN /\ frame'[r].p_ham_given_message =
                           FMul(frame[r].p_ham_given_message, parameters_ham[word])
                    /\ frame'[r].p_spam_given_message =
                           FMul(frame[r].p_spam_given_message, parameters_spam[word])
               ELSE /\ frame'[r].p_ham_given_message = frame[r].p_ham_given_message
                    /\ frame'[r].p_spam_given_message = frame[r].p_spam_given_message
    /\ (frame[r].pc = "loop" /\ frame'[r].pc = "returned") =>
           /\ frame'[r].p_ham_given_message = frame[r].p_ham_given_message
           /\ frame'[r].p_spam_given_message = frame[r].p_spam_given_message

\* C13: in classify each score starts at its prior, and every word of the message is
\* applied to both scores, each by its own likelihood, or to neither; never to one only.
BothScoresOrNeither ==
    /\ []SameKeys
    /\ [][\A r \in DOMAIN frame : ScoresMoveTogether(r)]_vars

\* a call returned on a message with a word outside the vocabulary between two inside;
\* the tables differ and both scores have left their priors
BothScoresAdjusted ==
    \E r \in DOMAIN frame :
        /\ Returned(r)
        /\ Len(frame[r].message) = 3
        /\ Len(Known(r)) = 2
        /\ parameters_ham # parameters_spam
        /\ p_ham = p_spam
        /\ frame[r].p_ham_given_message # p_ham
        /\ frame[r].p_spam_given_message # p_spam
        /\ frame[r].p_spam_given_message # frame[r].p_ham_given_message

IsWordChar(c) == ~IsNonWord(c)

\* the places of raw at which a run of word characters begins, in order
RunStarts(raw) ==
    SelectSeq([i \in 1..Len(raw) |-> i],
              LAMBDA i : IsWordChar(raw[i]) /\ (i = 1 \/ IsNonWord(raw[i - 1])))

\* the place at which the run of word characters that begins at i ends
RunEnd(raw, i) ==
    CHOOSE j \in i..Len(raw) :
        /\ j = Len(raw) \/ IsNonWord(raw[j + 1])
        /\ \A k \in i..j : IsWordChar(raw[k])

\* words is raw with each non-word character made a space, lowercased, split on
\* whitespace, the empty tokens discarded: the maximal runs of word characters of raw,
\* lowercased, in order
Normalized(raw, words) ==
    LET starts == RunStarts(raw)
    IN  /\ Len(words) = Len(starts)
        /\ \A k \in DOMAIN words :
               words[k] = Lower(SubSeq(raw, starts[k], RunEnd(raw, starts[k])))

\* the data clean cell leaves in each training row what classify's clean-up makes of
\* the row's raw text
TrainingCleanedAsByClassify ==
    pc = "clean" =>
        \A i \in DOMAIN train :
            /\ train'[i].SMS = CleanMessage(train[i].SMS)
            /\ Normalized(train[i].SMS, train'[i].SMS)

\* a call of classify starts on what the data clean cell makes of the raw text
MessageCleanedAsInTraining(r) ==
    (frame[r].pc = "pending" /\ frame'[r].pc = "loop") =>
        /\ frame'[r].message = CleanTrain(test[r])
        /\ Normalized(test[r], frame'[r].message)

\* C14: the normalization of the training messages and the one inside classify are the
\* same function: each makes every non-word character a space, lowercases, splits on
\* whitespace and drops empty tokens, so the same raw text gives the same tokens.
SameNormalization ==
    /\ [][TrainingCleanedAsByClassify]_pc
    /\ [][\A r \in DOMAIN frame : MessageCleanedAsInTraining(r)]_position

\* a training row was cleaned to the tokens b, b (its raw text "B.b": a capital and a
\* full stop) and classify began on "a.z_!b" with the tokens a, z_, b
PunctuationAndCaseCleaned ==
    /\ pc = "ready"
    /\ \E i \in DOMAIN train : train[i].SMS = << <<"b">>, <<"b">> >>
    /\ \E r \in DOMAIN frame :
           /\ test[r] = <<"a", ".", "z", "_", "!", "b">>
           /\ frame[r].pc = "loop"
           /\ frame[r].message = << <<"a">>, <<"z", "_">>, <<"b">> >>

(***************************************************************************)
(* Order and multiplicity of the words.                                    *)
(***************************************************************************)
\* how often w stands in s, as the number of its places
Count(w, s) == Cardinality({j \in DOMAIN s : s[j] = w})

\* t holds the words of s, each as often, in any order
IsPerm(s, t) ==
    /\ Len(s) = Len(t)
    /\ \A w \in Range(s) \cup Range(t) : Count(w, s) = Count(w, t)

\* every reordering of s
Reorderings(s) ==
    IF s = <<>> THEN {<<>>}
    ELSE {[i \in DOMAIN s |-> s[p[i]]] : p \in Permutations(DOMAIN s)}

\* the float after x, for x finite and positive
NextUp(x) ==
    LET m == BigInc(x.m)
    IN  IF BigBitLen(m) <= MantBits THEN Fin(x.s, m, x.e)
        ELSE IF x.e + MantBits > EMaxTop THEN Inf(x.s)
        ELSE Fin(x.s, BigShiftRight(m, 1), x.e + 1)

\* x and y, finite and positive, are at most n floats apart
RECURSIVE WithinUlps(_, _, _)
WithinUlps(x, y, n) ==
    IF FGt(x, y) THEN WithinUlps(y, x, n)
    ELSE IF ~FGt(y, x) THEN TRUE
    ELSE IF n = 0 THEN FALSE
    ELSE WithinUlps(NextUp(x), y, n - 1)

\* a positive normal number: the significand has all its MantBits bits
IsNormal(x) == x.k = "fin" /\ x.s = 1 /\ BigBitLen(x.m) = MantBits

\* cells 9-11 keep of a training row the set of its words, their number and the
\* number of occurrences of each word: the same for every reordering of the row
TrainingIgnoresOrder ==
    pc \notin {"clean", "count"} =>
        \A i \in DOMAIN train : \A q \in Reorderings(train[i].SMS) :
            /\ Range(q) = Range(train[i].SMS)
            /\ Len(q) = Len(train[i].SMS)
            /\ \A word \in vocabulary :
                   /\ Occurrences(word, q) = word_counts_per_sms[word][i]
                   /\ word_counts_per_sms[word][i] = Count(word, train[i].SMS)

\* the ham rows and the spam rows are the same up to the order of the words in a row
RowsMirrored ==
    /\ Len(ham_df) = Len(spam_df)
    /\ \A k \in DOMAIN ham_df : IsPerm(train[ham_df[k]].SMS, train[spam_df[k]].SMS)

\* then the two labels have the same prior and the same likelihoods
MirroredRowsSameModel ==
    (Trained /\ RowsMirrored) =>
        /\ p_ham = p_spam
        /\ n_vocab_given_ham = n_vocab_given_spam
        /\ parameters_ham = parameters_spam

\* two returned calls whose messages hold the same words in a different order
PermutedCalls ==
    {c \in (DOMAIN frame) \X (DOMAIN frame) :
        /\ Returned(c[1])
        /\ Returned(c[2])
        /\ frame[c[1]].message # frame[c[2]].message
        /\ IsPerm(frame[c[1]].message, frame[c[2]].message)}

\* the original statement: messages that differ in the order of their words get
\* the same final scores and the same label
PermutedMessagesSameResult ==
    \A c \in PermutedCalls :
        /\ frame[c[1]].p_ham_given_message = frame[c[2]].p_ham_given_message
        /\ frame[c[1]].p_spam_given_message = frame[c[2]].p_spam_given_message
        /\ frame[c[1]].ret = frame[c[2]].ret

\* the scores of a returned call: the prior times one factor for each occurrence
\* of a known word, multiplied in the order of the message
InMessageOrder(r) ==
    LET alone == ScoresAfter([ham |-> p_ham, spam |-> p_spam],
                             frame[r].message, 1, Len(frame[r].message))
    IN  /\ frame[r].p_ham_given_message = alone.ham
        /\ frame[r].p_spam_given_message = alone.spam

\* the scores of two calls are the same up to the rounding of the products
CloseScores(r1, r2) ==
    LET n == 2 * Len(frame[r1].message)
        close(x, y) == (IsNormal(x) /\ IsNormal(y)) => WithinUlps(x, y, n)
    IN  /\ close(frame[r1].p_ham_given_message, frame[r2].p_ham_given_message)
        /\ close(frame[r1].p_spam_given_message, frame[r2].p_spam_given_message)

\* C15: training does not see the order of the words of a row but counts every
\* occurrence; classify multiplies one factor per occurrence in the order of the
\* message, so for alpha > 0 messages that differ in the order of their words
\* get scores equal up to rounding (at most two floats apart per word), not
\* always equal scores, and so not always the same label
OrderUpToRounding ==
    /\ TrainingIgnoresOrder
    /\ MirroredRowsSameModel
    /\ \A c \in PermutedCalls :
           /\ InMessageOrder(c[1])
           /\ alpha > 0 => CloseScores(c[1], c[2])

\* two messages of the same words, each counted twice, get scores that differ in
\* the last bit and different labels
PermutedMessagesDifferentLabels ==
    \E c \in PermutedCalls :
        /\ frame[c[1]].message = << <<"a">>, <<"a">>, <<"b">>, <<"b">> >>
        /\ frame[c[2]].message = << <<"b">>, <<"b">>, <<"a">>, <<"a">> >>
        /\ Len(train) = 4
        /\ word_counts_per_sms[<<"b">>][3] = 2
        /\ frame[c[1]].p_ham_given_message # frame[c[2]].p_ham_given_message
        /\ frame[c[1]].ret = "spam"
        /\ frame[c[2]].ret = "ham"

(***************************************************************************)
(* The scores inside the loop of classify.                                 *)
(***************************************************************************)
\* the calls whose scores are set: in the loop or returned
Scored == {r \in DOMAIN frame : frame[r].pc \in {"loop", "returned"}}

IsPositive(x) == FGt(x, Zero(1))

\* no score is above its prior or below 0
ScoreWithinPrior(r) ==
    /\ ~FGt(frame[r].p_ham_given_message, p_ham)
    /\ ~FGt(frame[r].p_spam_given_message, p_spam)
    /\ ~FGt(Zero(1), frame[r].p_ham_given_message)
    /\ ~FGt(Zero(1), frame[r].p_spam_given_message)

\* a score is positive when its prior is
ScorePositive(r) ==
    /\ IsPositive(p_ham) => IsPositive(frame[r].p_ham_given_message)
    /\ IsPositive(p_spam) => IsPositive(frame[r].p_spam_given_message)

\* one iteration of the loop does not raise a score
ScoreNotRaised(r) ==
    (frame[r].pc = "loop" /\ frame'[r].pc = "loop") =>
        /\ ~FGt(frame'[r].p_ham_given_message, frame[r].p_ham_given_message)
        /\ ~FGt(frame'[r].p_spam_given_message, frame[r].p_spam_given_message)

\* the product of the significands of two finite floats, before rounding
ExactProduct(x, y) == BigMul(x.m, y.m)

\* the exact product of two positive floats is below 2^EMin, the least positive float
BelowLeastFloat(x, y) ==
    x.k = "fin" /\ y.k = "fin" /\ BigBitLen(ExactProduct(x, y)) + x.e + y.e <= EMin

\* the exact product of two positive floats is at most 2^(EMin - 1), half the least
\* positive float: it is below it, or it is that power of two itself
AtMostHalfLeastFloat(x, y) ==
    /\ x.k = "fin"
    /\ y.k = "fin"
    /\ LET p == ExactProduct(x, y)
           top == BigBitLen(p) + x.e + y.e
       IN  \/ top < EMin
           \/ top = EMin /\ ~BigLowNonZero(p, BigBitLen(p) - 1)

\* the iteration of call r over its word i brings a positive score to 0 exactly when
\* the word is in the table and the exact product with its likelihood is at most half
\* the least positive float
ZeroExactlyByUnderflow(r) ==
    LET word == frame[r].message[frame[r].i]
        lost(before, after, params) ==
            IsPositive(before) =>
                /\ ~IsPositive(after) =>
                       /\ word \in DOMAIN params
                       /\ IsPositive(params[word])
                       /\ AtMostHalfLeastFloat(before, params[word])
                /\ (word \in DOMAIN params /\ AtMostHalfLeastFloat(before, params[word]))
                       => IsZero(after)
    IN  (frame[r].pc = "loop" /\ frame'[r].i = frame[r].i + 1) =>
            /\ lost(frame[r].p_ham_given_message, frame'[r].p_ham_given_message,
                    parameters_ham)
            /\ lost(frame[r].p_spam_given_message, frame'[r].p_spam_given_message,
                    parameters_spam)

\* the original statement: the scores stay at or below the priors, do not rise,
\* and are positive whenever the prior is
ScoreStaysPositive ==
    /\ [](alpha > 0 => \A r \in Scored : ScoreWithinPrior(r) /\ ScorePositive(r))
    /\ [][alpha > 0 => \A r \in DOMAIN frame : ScoreNotRaised(r)]_position

\* C16: for alpha > 0 and after any number of words, a score of classify is at
\* most its prior and at least 0, no iteration raises it, and an iteration
\* brings a positive score to 0 exactly when the exact product with the word's
\* likelihood is at most 2^-1075, half the least positive binary64 number
ScoreBoundedByPrior ==
    /\ [](alpha > 0 => \A r \in Scored : ScoreWithinPrior(r))
    /\ [][alpha > 0 => \A r \in DOMAIN frame :
              ScoreNotRaised(r) /\ ZeroExactlyByUnderflow(r)]_position

\* by the end of the longer message the spam score, of factors 2/5 from a positive
\* prior, has come to 0, and the ham score, of factors 3/5, stands at the least
\* positive float: its exact product with 3/5 is below that float and above half
\* of it, and rounds back to it
ScoreLostUnderPositivePrior ==
    /\ alpha > 0
    /\ \E r \in Scored :
           LET ham == frame[r].p_ham_given_message
               spam == frame[r].p_spam_given_message
               early == ScoresAfter([ham |-> p_ham, spam |-> p_spam],
                                    frame[r].message, 1, 2)
           IN  /\ frame[r].i > LongerLen
               /\ IsPositive(p_spam)
               /\ IsZero(spam)
               /\ IsPositive(early.spam)
               /\ FGt(p_spam, early.spam)
               /\ ham = Fin(1, <<1>>, EMin)
               /\ BelowLeastFloat(ham, parameters_ham[<<"a">>])
               /\ ~AtMostHalfLeastFloat(ham, parameters_ham[<<"a">>])
               /\ FMul(ham, parameters_ham[<<"a">>]) = ham

=============================================================================
